---- MODULE Spec2Model ----
(***************************************************************************)
(* Model of lib/github_fetch/github_fetch.go: the tarPrefixStripper, a     *)
(* lazily started producer goroutine that decodes a gzip'd tar stream,     *)
(* strips the first path segment of every entry name, drops entries that   *)
(* match the .dockerignore patterns and re-encodes the rest into an        *)
(* io.Pipe read by the consumer.                                           *)
(*                                                                         *)
(* A name is a sequence of tokens; the token "/" is the path separator and *)
(* every other token stands for a non-empty string without a slash.        *)
(***************************************************************************)
EXTENDS Integers, Sequences, FiniteSets, TLC

\* ---------------------------------------------------------------- bounds
MaxNameLen == 3
MaxEntries == 2
PayloadLen == 1

\* ----------------------------------------------------------------- names
Slash == "/"
PaxGlobalHeader == <<"pax_global_header">>

RECURSIVE SeqsUpTo(_, _)
SeqsUpTo(S, n) ==
  IF n = 0 THEN {<<>>}
  ELSE LET shorter == SeqsUpTo(S, n - 1)
       IN  shorter \cup {Append(s, c) : s \in {t \in shorter : Len(t) = n - 1}, c \in S}

\* names a source tar header can carry
Names == SeqsUpTo({Slash, "a"}, MaxNameLen) \cup {PaxGlobalHeader}

\* path.IsAbs
IsAbs(name) == Len(name) > 0 /\ name[1] = Slash

\* strings.Split(name, "/"): the segments between separators, empty ones kept
RECURSIVE Split(_)
Split(name) ==
  IF \A i \in 1..Len(name) : name[i] # Slash THEN <<name>>
  ELSE LET i == CHOOSE k \in 1..Len(name) :
                  name[k] = Slash /\ \A j \in 1..(k - 1) : name[j] # Slash
       IN  <<SubSeq(name, 1, i - 1)>> \o Split(SubSeq(name, i + 1, Len(name)))

\* strings.Join(segs, "/")
RECURSIVE Join(_)
Join(segs) ==
  IF Len(segs) = 0 THEN <<>>
  ELSE IF Len(segs) = 1 THEN segs[1]
  ELSE segs[1] \o <<Slash>> \o Join(Tail(segs))

\* payload size of a source entry, in copy chunks: directory entries (names
\* ending in a slash) and the pax pseudo-entry carry no payload
Size(name) ==
  IF name = PaxGlobalHeader \/ Len(name) = 0 \/ name[Len(name)] = Slash
  THEN 0 ELSE PayloadLen

\* ------------------------------------------------------ pattern matcher
Malformed == <<"[">>
Pattern(neg, pat) == [neg |-> neg, pat |-> pat]

\* the exclusion lists handed to newTarPrefixStripper
ExcludeLists ==
  { <<>>,
    <<Pattern(FALSE, <<"a">>)>>,
    <<Pattern(FALSE, <<"a">>), Pattern(TRUE, <<"a">>)>>,
    <<Pattern(FALSE, Malformed)>> }

\* filepath.Clean on a name without "." or ".." segments
Clean(file) ==
  LET segs == Split(file)
      kept == SelectSeq(segs, LAMBDA s : s # <<>>)
  IN  IF IsAbs(file) THEN <<Slash>> \o Join(kept)
      ELSE IF kept = <<>> THEN <<".">>
      ELSE Join(kept)

\* one pattern against a cleaned file: the file itself or one of its
\* leading directories
PatternMatch(pat, file) ==
  LET fsegs == Split(file)
      psegs == Split(pat)
  IN  \/ pat = file
      \/ /\ Len(psegs) < Len(fsegs)
         /\ Join(SubSeq(fsegs, 1, Len(psegs))) = pat

\* fileutils.Matches(file, patterns): "error", or the verdict of the last
\* pattern that matches (a negated pattern re-includes)
RECURSIVE Verdict(_, _, _)
Verdict(file, patterns, sofar) ==
  IF patterns = <<>> THEN sofar
  ELSE LET p == Head(patterns)
       IN  Verdict(file, Tail(patterns),
                   IF PatternMatch(p.pat, file) THEN ~p.neg ELSE sofar)

Matches(file, patterns) ==
  IF \E i \in 1..Len(patterns) : patterns[i].pat = Malformed
  THEN [match |-> FALSE, err |-> TRUE]
  ELSE IF Clean(file) = <<".">> THEN [match |-> FALSE, err |-> FALSE]
  ELSE [match |-> Verdict(Clean(file), patterns, FALSE), err |-> FALSE]

\* fileutils.Matches tabulated over the names and the exclusion lists
MatchesTable ==
  [file \in Names |-> [patterns \in ExcludeLists |-> Matches(file, patterns)]]

\* ------------------------------------------------------- header handling
\* shouldSkipDockerIgnoredFile with the matcher's verdict dropped
shouldSkipDockerIgnoredFile_noSkip(name, patterns) ==
  LET m == Matches(name, patterns)
  IN  IF m.err THEN [skip |-> FALSE, err |-> "match"]
      ELSE [skip |-> FALSE, err |-> "none"]

\* shouldSkipDockerIgnoredFile taking a matcher error for "no match"
shouldSkipDockerIgnoredFile_swallow(name, patterns) ==
  LET m == Matches(name, patterns)
  IN  [skip |-> m.match, err |-> "none"]

\* tarPrefixStripper.shouldSkipDockerIgnoredFile
shouldSkipDockerIgnoredFile(name, patterns) ==
  LET m == Matches(name, patterns)
  IN  IF m.err THEN [skip |-> FALSE, err |-> "match"]
      ELSE [skip |-> m.match, err |-> "none"]

\* processHeader joining from one segment too far (spath[2:])
processHeader_dropTwo(name, patterns) ==
  IF name = PaxGlobalHeader
  THEN [skip |-> TRUE, err |-> "none", name |-> name, matched |-> FALSE]
  ELSE IF IsAbs(name)
  THEN [skip |-> TRUE, err |-> "abs", name |-> name, matched |-> FALSE]
  ELSE LET spath == Split(name)
       IN  IF Len(spath) = 2 /\ spath[2] = <<>>
           THEN [skip |-> TRUE, err |-> "none", name |-> name, matched |-> FALSE]
           ELSE LET newName == Join(SubSeq(spath, 3, Len(spath)))
                    r == shouldSkipDockerIgnoredFile(newName, patterns)
                IN  [skip |-> r.skip, err |-> r.err, name |-> newName,
                     matched |-> TRUE]

\* processHeader without the path.IsAbs check
processHeader_noAbs(name, patterns) ==
  IF name = PaxGlobalHeader
  THEN [skip |-> TRUE, err |-> "none", name |-> name, matched |-> FALSE]
  ELSE LET spath == Split(name)
       IN  IF Len(spath) = 2 /\ spath[2] = <<>>
           THEN [skip |-> TRUE, err |-> "none", name |-> name, matched |-> FALSE]
           ELSE LET newName == Join(SubSeq(spath, 2, Len(spath)))
                    r == shouldSkipDockerIgnoredFile(newName, patterns)
                IN  [skip |-> r.skip, err |-> r.err, name |-> newName,
                     matched |-> TRUE]

\* processHeader without the top-level directory check
processHeader_noTopDir(name, patterns) ==
  IF name = PaxGlobalHeader
  THEN [skip |-> TRUE, err |-> "none", name |-> name, matched |-> FALSE]
  ELSE IF IsAbs(name)
  THEN [skip |-> TRUE, err |-> "abs", name |-> name, matched |-> FALSE]
  ELSE LET spath == Split(name)
           newName == Join(SubSeq(spath, 2, Len(spath)))
           r == shouldSkipDockerIgnoredFile(newName, patterns)
       IN  [skip |-> r.skip, err |-> r.err, name |-> newName, matched |-> TRUE]

\* tarPrefixStripper.processHeader: skip/err as returned, name as h.Name is
\* left, matched = whether the pattern matcher was called
processHeader(name, patterns) ==
  IF name = PaxGlobalHeader
  THEN [skip |-> TRUE, err |-> "none", name |-> name, matched |-> FALSE]
  ELSE IF IsAbs(name)
  THEN [skip |-> TRUE, err |-> "abs", name |-> name, matched |-> FALSE]
  ELSE LET spath == Split(name)
       IN  IF Len(spath) = 2 /\ spath[2] = <<>>
           THEN [skip |-> TRUE, err |-> "none", name |-> name, matched |-> FALSE]
           ELSE LET newName == Join(SubSeq(spath, 2, Len(spath)))
                    r == shouldSkipDockerIgnoredFile(newName, patterns)
                IN  [skip |-> r.skip, err |-> r.err, name |-> newName,
                     matched |-> TRUE]

\* ------------------------------------------------------------ the state
VARIABLES
  excludes,          \* t.excludes
  strippingStarted,  \* t.strippingStarted
  cpc,               \* consumer: "idle" outside Read, "reading" inside pipeReader.Read
  readIssued,        \* the consumer has called Read at least once
  readResult,        \* terminal result a Read has returned: "none", "EOF" or an error
  ppc,               \* position of the startStrippingPipe goroutine
  srcRead,           \* bytes have been read from t.tarball
  src,               \* names of the source entries tarball.Next has decoded
  header,            \* header.Name of the entry in hand
  copied,            \* payload chunks of the entry in hand passed on by io.Copy
  twErr,             \* the tar writer holds a sticky error
  outp,              \* blocks written to t.pipeWriter, in order
  pending,           \* the last block of outp is a write still waiting for its Read
  termErr,           \* the error handed to CloseWithError ("none" before, "EOF" for nil)
  pipeErr,           \* "open", or what the closed pipe returns to a Read
  pipeCloses,        \* calls of t.pipeWriter.CloseWithError
  srcCloses,         \* calls of t.tarball.Close
  matchLog,          \* indices of the source entries handed to the pattern matcher
  producers,         \* executions of `go t.startStrippingPipe()`
  c2,                \* a second, concurrent caller of Read: "none" when there is none
  gpc,               \* position of GitHubFetcher.Get
  getErr,            \* the error Get returned, "none" without one
  requests,          \* the remote requests Get has issued, in order
  ignoreOutcome      \* how the request for .dockerignore ended

vars == <<excludes, strippingStarted, cpc, readIssued, readResult, ppc, srcRead,
          src, header, copied, twErr, outp, pending, termErr, pipeErr,
          pipeCloses, srcCloses, matchLog, producers, c2, gpc, getErr,
          requests, ignoreOutcome>>

consumerVars == <<cpc, readIssued, readResult>>
sourceVars   == <<srcRead, src, header, copied>>
closeVars    == <<termErr, pipeErr, pipeCloses, srcCloses>>
fetchVars    == <<gpc, getErr, requests, ignoreOutcome>>

\* blocks the tar writer hands to the pipe
HdrBlock(i, name) == [k |-> "hdr", idx |-> i, name |-> name]
DataBlock(i, n)   == [k |-> "data", idx |-> i, n |-> n]
PadBlock(i)       == [k |-> "pad", idx |-> i]
TrailerBlock      == [k |-> "trailer"]

\* newTarPrefixStripper starting the goroutine at construction
newTarPrefixStripper_eager(ex) ==
  /\ excludes = ex
  /\ strippingStarted = TRUE
  /\ ppc = "gzip"
  /\ srcRead = FALSE
  /\ outp = <<>>
  /\ pending = FALSE
  /\ pipeErr = "open"

\* newTarPrefixStripper: the pipe is created, nothing is started or read
newTarPrefixStripper(ex) ==
  /\ excludes = ex
  /\ strippingStarted = FALSE
  /\ ppc = "idle"
  /\ srcRead = FALSE
  /\ outp = <<>>
  /\ pending = FALSE
  /\ pipeErr = "open"

Init ==
  /\ \E ex \in ExcludeLists : newTarPrefixStripper(ex)
  /\ cpc = "idle"
  /\ readIssued = FALSE
  /\ readResult = "none"
  /\ src = <<>>
  /\ header = <<>>
  /\ copied = 0
  /\ twErr = FALSE
  /\ termErr = "none"
  /\ pipeCloses = 0
  /\ srcCloses = 0
  /\ matchLog = {}
  /\ producers = 0
  /\ c2 = "none"
  /\ gpc = "returned"
  /\ getErr = "none"
  /\ requests = <<"contents", "link", "archive">>
  /\ ignoreOutcome = "ok"

\* ----------------------------------------------------------- the consumer
\* Read that never sets t.strippingStarted and starts a goroutine every time
ReadCall_noFlag ==
  /\ cpc = "idle"
  /\ cpc' = "reading"
  /\ readIssued' = TRUE
  /\ ppc' = "gzip"
  /\ producers' = producers + 1
  /\ UNCHANGED <<fetchVars, c2, excludes, strippingStarted, readResult,
                 sourceVars, twErr, outp, pending, closeVars, matchLog>>

\* tarPrefixStripper.Read up to the call of t.pipeReader.Read
ReadCall ==
  /\ cpc = "idle"
  /\ cpc' = "reading"
  /\ readIssued' = TRUE
  /\ strippingStarted' = TRUE
  /\ ppc' = IF ~strippingStarted THEN "gzip" ELSE ppc
  /\ producers' = IF ~strippingStarted THEN producers + 1 ELSE producers
  /\ UNCHANGED <<fetchVars, c2, excludes, readResult, sourceVars, twErr, outp, pending,
                 closeVars, matchLog>>

\* t.pipeReader.Read returns the block of the pending write
ReadData ==
  /\ cpc = "reading"
  /\ pending
  /\ pending' = FALSE
  /\ cpc' = "idle"
  /\ UNCHANGED <<fetchVars, c2, producers, excludes, strippingStarted, readIssued, readResult, ppc,
                 sourceVars, twErr, outp, closeVars, matchLog>>

\* t.pipeReader.Read on the closed pipe returns io.EOF or the close error
ReadClosed ==
  /\ cpc = "reading"
  /\ ~pending
  /\ pipeErr # "open"
  /\ readResult' = pipeErr
  /\ cpc' = "idle"
  /\ UNCHANGED <<fetchVars, c2, producers, excludes, strippingStarted, readIssued, ppc, sourceVars,
                 twErr, outp, pending, closeVars, matchLog>>

\* ----------------------------------------------------------- the producer
\* a write to t.pipeWriter: it returns only when a Read has taken the block,
\* so every later producer step waits for ~pending
PipeWrite(block) ==
  /\ outp' = Append(outp, block)
  /\ pending' = TRUE

\* closeFunc(e) is entered
EnterClose(e) ==
  /\ termErr' = e
  /\ ppc' = "closeTw"

\* gzip.NewReader(t.tarball), and the early return when it fails
GzipNewReader ==
  /\ ppc = "gzip"
  /\ srcRead' = TRUE
  /\ \/ /\ ppc' = "next"
        /\ UNCHANGED closeVars
     \/ /\ termErr' = "gzip"
        /\ pipeErr' = "gzip"
        /\ pipeCloses' = pipeCloses + 1
        /\ ppc' = "done"
        /\ UNCHANGED srcCloses
  /\ UNCHANGED <<fetchVars, c2, producers, excludes, strippingStarted, consumerVars, src, header, copied,
                 twErr, outp, pending, matchLog>>

\* tarball.Next() running while the last write is still in the pipe, as over
\* a buffered channel
Next_buffered ==
  /\ ppc = "next"
  /\ \/ /\ Len(src) < MaxEntries
        /\ \E name \in Names :
             /\ src' = Append(src, name)
             /\ header' = name
        /\ copied' = 0
        /\ ppc' = "process"
        /\ UNCHANGED <<termErr>>
     \/ /\ EnterClose("EOF")
        /\ UNCHANGED <<src, header, copied>>
     \/ /\ EnterClose("decode")
        /\ UNCHANGED <<src, header, copied>>
  /\ UNCHANGED <<fetchVars, c2, producers, excludes, strippingStarted,
                 consumerVars, srcRead, twErr, outp, pending, pipeErr,
                 pipeCloses, srcCloses, matchLog>>

\* tarball.Next(): the next header, io.EOF, or a decode error
Next_ ==
  /\ ppc = "next"
  /\ ~pending
  /\ \/ /\ Len(src) < MaxEntries
        /\ \E name \in Names :
             /\ src' = Append(src, name)
             /\ header' = name
        /\ copied' = 0
        /\ ppc' = "process"
        /\ UNCHANGED <<termErr>>
     \/ /\ EnterClose("EOF")
        /\ UNCHANGED <<src, header, copied>>
     \/ /\ EnterClose("decode")
        /\ UNCHANGED <<src, header, copied>>
  /\ UNCHANGED <<fetchVars, c2, producers, excludes, strippingStarted, consumerVars, srcRead, twErr,
                 outp, pending, pipeErr, pipeCloses, srcCloses, matchLog>>

\* processHeader tabulated over the headers tarball.Next can return and the
\* exclusion lists
HeaderResult ==
  [n \in Names |-> [ex \in ExcludeLists |-> processHeader(n, ex)]]

\* t.processHeader(header) and the two branches on its result
ProcessHeader ==
  /\ ppc = "process"
  /\ LET r == HeaderResult[header][excludes]
     IN  /\ header' = r.name
         /\ matchLog' = IF r.matched THEN matchLog \cup {Len(src)} ELSE matchLog
         /\ IF r.err # "none" THEN EnterClose(r.err)
            ELSE /\ ppc' = IF r.skip THEN "next" ELSE "writeHeader"
                 /\ UNCHANGED termErr
  /\ UNCHANGED <<fetchVars, c2, producers, excludes, strippingStarted, consumerVars, srcRead, src, copied,
                 twErr, outp, pending, pipeErr, pipeCloses, srcCloses>>

\* outTarball.WriteHeader(header): the header block goes to the pipe, or the
\* header cannot be encoded
WriteHeader ==
  /\ ppc = "writeHeader"
  /\ ~pending
  /\ \/ /\ PipeWrite(HdrBlock(Len(src), header))
        /\ ppc' = "copy"
        /\ UNCHANGED <<termErr, twErr>>
     \/ /\ EnterClose("hdr")
        /\ twErr' \in BOOLEAN
        /\ UNCHANGED <<outp, pending>>
  /\ UNCHANGED <<fetchVars, c2, producers, excludes, strippingStarted, consumerVars, sourceVars,
                 pipeErr, pipeCloses, srcCloses, matchLog>>

\* io.Copy that passes no payload on
Copy_noPayload ==
  /\ ppc = "copy"
  /\ ~pending
  /\ ppc' = "flush"
  /\ UNCHANGED <<fetchVars, c2, producers, excludes, strippingStarted,
                 consumerVars, sourceVars, twErr, outp, pending, closeVars,
                 matchLog>>

\* io.Copy(outTarball, tarball): one chunk read from the source and written,
\* a source read error, or the end of the payload
Copy ==
  /\ ppc = "copy"
  /\ ~pending
  /\ IF copied < Size(src[Len(src)])
     THEN \/ /\ PipeWrite(DataBlock(Len(src), copied + 1))
             /\ copied' = copied + 1
             /\ UNCHANGED <<ppc, termErr>>
          \/ /\ EnterClose("copy")
             /\ UNCHANGED <<outp, pending, copied>>
     ELSE /\ ppc' = "flush"
          /\ UNCHANGED <<outp, pending, copied, termErr>>
  /\ UNCHANGED <<fetchVars, c2, producers, excludes, strippingStarted, consumerVars, srcRead, src, header,
                 twErr, pipeErr, pipeCloses, srcCloses, matchLog>>

\* Flush after which the loop writes the entry in hand again
Flush_repeat ==
  /\ ppc = "flush"
  /\ outp' = Append(outp, PadBlock(Len(src)))
  /\ pending' = TRUE
  /\ copied' = 0
  /\ ppc' = "writeHeader"
  /\ UNCHANGED <<fetchVars, c2, producers, excludes, strippingStarted, consumerVars, srcRead, src, header,
                 twErr, closeVars, matchLog>>

\* outTarball.Flush(): the padding that ends the entry
Flush ==
  /\ ppc = "flush"
  /\ PipeWrite(PadBlock(Len(src)))
  /\ ppc' = "next"
  /\ UNCHANGED <<fetchVars, c2, producers, excludes, strippingStarted, consumerVars, sourceVars, twErr,
                 closeVars, matchLog>>

\* the tar writer still owes payload bytes of the entry in hand
MissedBytes ==
  /\ Len(outp) > 0
  /\ Len(src) > 0
  /\ copied < Size(src[Len(src)])
  /\ \E j \in 1..Len(outp) : outp[j].k = "hdr" /\ outp[j].idx = Len(src)

\* closeFunc, first statement: outTarball.Close() writes the end-of-archive
\* trailer unless the writer is in error or the entry in hand is incomplete
CloseTarWriter ==
  /\ ppc = "closeTw"
  /\ ~pending
  /\ IF twErr \/ MissedBytes
     THEN UNCHANGED <<outp, pending>>
     ELSE PipeWrite(TrailerBlock)
  /\ ppc' = "closePipe"
  /\ UNCHANGED <<fetchVars, c2, producers, excludes, strippingStarted, consumerVars, sourceVars, twErr,
                 closeVars, matchLog>>

\* CloseWithError that does not wait for the trailer write to be read
ClosePipe_early ==
  /\ ppc = "closePipe"
  /\ pipeErr' = termErr
  /\ pipeCloses' = pipeCloses + 1
  /\ ppc' = "closeSrc"
  /\ UNCHANGED <<fetchVars, c2, producers, excludes, strippingStarted,
                 consumerVars, sourceVars, twErr, outp, pending, termErr,
                 srcCloses, matchLog>>

\* closeFunc without its call of t.pipeWriter.CloseWithError
ClosePipe_noClose ==
  /\ ppc = "closePipe"
  /\ ~pending
  /\ ppc' = "closeSrc"
  /\ UNCHANGED <<fetchVars, c2, producers, excludes, strippingStarted,
                 consumerVars, sourceVars, twErr, outp, pending, closeVars,
                 matchLog>>

\* closeFunc, second statement: t.pipeWriter.CloseWithError(e)
ClosePipe ==
  /\ ppc = "closePipe"
  /\ ~pending
  /\ pipeErr' = termErr
  /\ pipeCloses' = pipeCloses + 1
  /\ ppc' = "closeSrc"
  /\ UNCHANGED <<fetchVars, c2, producers, excludes, strippingStarted, consumerVars, sourceVars, twErr,
                 outp, pending, termErr, srcCloses, matchLog>>

\* closeFunc, third statement: t.tarball.Close(), then the goroutine returns
CloseSource ==
  /\ ppc = "closeSrc"
  /\ srcCloses' = srcCloses + 1
  /\ ppc' = "done"
  /\ UNCHANGED <<fetchVars, c2, producers, excludes, strippingStarted, consumerVars, sourceVars, twErr,
                 outp, pending, termErr, pipeErr, pipeCloses, matchLog>>

Consumer == ReadCall \/ ReadData \/ ReadClosed
startStrippingPipe ==
  \/ GzipNewReader \/ Next_ \/ ProcessHeader \/ WriteHeader \/ Copy \/ Flush
  \/ CloseTarWriter \/ ClosePipe \/ CloseSource

Next == Consumer \/ startStrippingPipe

Spec == Init /\ [][Next]_vars

\* the goroutine scheduler lets the producer run whenever it can take a step,
\* and the consumer goes on reading
SpecFair == Spec /\ WF_vars(Consumer) /\ WF_vars(startStrippingPipe)

\* ------------------------------------- a second, concurrent caller of Read
\* Read is not synchronised: the second caller's test of t.strippingStarted
\* (line 168) and its `go` statement and assignment (lines 169-170) are
\* separate steps that the first caller's Read can fall between. The steps of
\* a second goroutine on the same source and pipe are not modelled, only that
\* it was started.
Read2Check ==
  /\ c2 = "idle"
  /\ c2' = IF ~strippingStarted THEN "start" ELSE "reading"
  /\ UNCHANGED <<fetchVars, producers, excludes, strippingStarted,
                 consumerVars, ppc, sourceVars, twErr, outp, pending,
                 closeVars, matchLog>>

Read2Start ==
  /\ c2 = "start"
  /\ producers' = producers + 1
  /\ strippingStarted' = TRUE
  /\ ppc' = IF ppc = "idle" THEN "gzip" ELSE ppc
  /\ c2' = "reading"
  /\ UNCHANGED <<fetchVars, excludes, consumerVars, sourceVars, twErr, outp,
                 pending, closeVars, matchLog>>

\* the second caller's t.pipeReader.Read returns a block or the close result
Read2Return ==
  /\ c2 = "reading"
  /\ \/ /\ pending
        /\ pending' = FALSE
     \/ /\ ~pending
        /\ pipeErr # "open"
        /\ UNCHANGED pending
  /\ c2' = "idle"
  /\ UNCHANGED <<fetchVars, producers, excludes, strippingStarted,
                 consumerVars, ppc, sourceVars, twErr, outp, closeVars,
                 matchLog>>

Reader2 == Read2Check \/ Read2Start \/ Read2Return

\* the session of Init with the second caller present
InitRace ==
  /\ \E ex \in ExcludeLists : newTarPrefixStripper(ex)
  /\ cpc = "idle"
  /\ readIssued = FALSE
  /\ readResult = "none"
  /\ src = <<>>
  /\ header = <<>>
  /\ copied = 0
  /\ twErr = FALSE
  /\ termErr = "none"
  /\ pipeCloses = 0
  /\ srcCloses = 0
  /\ matchLog = {}
  /\ producers = 0
  /\ c2 = "idle"
  /\ gpc = "returned"
  /\ getErr = "none"
  /\ requests = <<"contents", "link", "archive">>
  /\ ignoreOutcome = "ok"

NextRace == Next \/ Reader2

SpecRace == InitRace /\ [][NextRace]_vars

\* ------------------------------------------------- GitHubFetcher.Get
\* the variables of a session that does not exist yet
sessionVars == <<strippingStarted, cpc, readIssued, readResult, ppc, srcRead,
                 src, header, copied, twErr, outp, pending, termErr, pipeErr,
                 pipeCloses, srcCloses, matchLog, producers, c2>>

\* Get is called; there is no transform session before getArchive makes one
InitGet ==
  /\ gpc = "start"
  /\ getErr = "none"
  /\ requests = <<>>
  /\ ignoreOutcome = "none"
  /\ excludes = <<>>
  /\ strippingStarted = FALSE
  /\ cpc = "none"
  /\ readIssued = FALSE
  /\ readResult = "none"
  /\ ppc = "none"
  /\ srcRead = FALSE
  /\ src = <<>>
  /\ header = <<>>
  /\ copied = 0
  /\ twErr = FALSE
  /\ outp = <<>>
  /\ pending = FALSE
  /\ termErr = "none"
  /\ pipeErr = "open"
  /\ pipeCloses = 0
  /\ srcCloses = 0
  /\ matchLog = {}
  /\ producers = 0
  /\ c2 = "none"

\* Get returns (nil, err)
ReturnError(e) ==
  /\ gpc' = "returned"
  /\ getErr' = e

\* how Repositories.GetContents for .dockerignore can end: the file, an error
\* with a 404 response, an error with another response, an error without any
\* response (transport failure), undecodable content, unreadable patterns
IgnoreOutcomes == {"ok", "404", "status", "transport", "content", "parse"}

\* Get, line 77: parseDockerIgnoreIfExists and the test of its error. With
\* err != nil and no response, resp.StatusCode dereferences a nil pointer
ParseDockerIgnoreIfExists ==
  /\ gpc = "start"
  /\ requests' = Append(requests, "contents")
  /\ \E o \in IgnoreOutcomes :
       /\ ignoreOutcome' = o
       /\ CASE o = "404" ->
                 /\ excludes' = <<>>
                 /\ gpc' = "link"
                 /\ UNCHANGED getErr
            [] o = "ok" ->
                 /\ excludes' \in ExcludeLists
                 /\ gpc' = "link"
                 /\ UNCHANGED getErr
            [] o = "transport" ->
                 /\ gpc' = "panicked"
                 /\ UNCHANGED <<excludes, getErr>>
            [] OTHER ->
                 /\ ReturnError("dockerignore")
                 /\ UNCHANGED excludes
  /\ UNCHANGED sessionVars

\* Get, lines 81-90: Repositories.GetArchiveLink and the three tests behind it
GetArchiveLink ==
  /\ gpc = "link"
  /\ requests' = Append(requests, "link")
  /\ \/ ReturnError("link")
     \/ ReturnError("linkStatus")
     \/ ReturnError("urlNil")
     \/ /\ gpc' = "archive"
        /\ UNCHANGED getErr
  /\ UNCHANGED <<excludes, ignoreOutcome, sessionVars>>

\* getArchive: the download, and newTarPrefixStripper on its body
GetArchive ==
  /\ gpc = "archive"
  /\ \/ /\ ReturnError("newRequest")
        /\ UNCHANGED <<requests, cpc, ppc>>
     \/ /\ requests' = Append(requests, "archive")
        /\ \/ /\ ReturnError("do")
              /\ UNCHANGED <<cpc, ppc>>
           \/ /\ ReturnError("archiveStatus")
              /\ UNCHANGED <<cpc, ppc>>
           \/ /\ gpc' = "returned"
              /\ cpc' = "idle"
              /\ ppc' = "idle"
              /\ UNCHANGED getErr
  /\ UNCHANGED <<excludes, ignoreOutcome, strippingStarted, readIssued,
                 readResult, srcRead, src, header, copied, twErr, outp,
                 pending, termErr, pipeErr, pipeCloses, srcCloses, matchLog,
                 producers, c2>>

Get == ParseDockerIgnoreIfExists \/ GetArchiveLink \/ GetArchive

NextGet == Get \/ Next

SpecGet == InitGet /\ [][NextGet]_vars

\* ------------------------------------------------------ derived notions
ErrorKinds == {"gzip", "decode", "abs", "match", "hdr", "copy"}

\* positions of the header blocks in the output, and the blocks of entry i
HdrPositions == {j \in 1..Len(outp) : outp[j].k = "hdr"}
BlocksOf(i) == {j \in 1..Len(outp) : outp[j].k # "trailer" /\ outp[j].idx = i}
TrailerWritten == \E j \in 1..Len(outp) : outp[j].k = "trailer"

\* a name with its first segment and the slash after it cut off, computed on
\* the name itself: everything behind the first slash, nothing if there is none
HasSlash(name) == \E i \in 1..Len(name) : name[i] = Slash
FirstSlash(name) ==
  CHOOSE i \in 1..Len(name) : name[i] = Slash /\ \A j \in 1..(i - 1) : name[j] # Slash
BehindFirstSlash(name) ==
  IF HasSlash(name) THEN SubSeq(name, FirstSlash(name) + 1, Len(name)) ELSE <<>>

\* ----------------------------------------------------------------- claims

\* C1: when startStrippingPipe has returned, on whatever exit path, the source
\* stream has been closed exactly once and the pipe writer exactly once.
C1_ClosedExactlyOnce ==
  ppc = "done" => srcCloses = 1 /\ pipeCloses = 1

\* C2: a session whose Read returned a terminal error has no end-of-archive
\* trailer in its output; the trailer is written only after a clean end of
\* the source.
C2_NoTrailerOnError ==
  /\ readResult \in ErrorKinds => ~TrailerWritten
  /\ TrailerWritten => termErr = "EOF"

\* C3: no header written to the output carries an absolute name.
C3_NoAbsoluteOutputName ==
  \A j \in HdrPositions : ~IsAbs(outp[j].name)

\* C4: every header written to the output carries the name of its source
\* entry with the first segment and the slash behind it removed, the rest
\* unchanged.
C4_FirstSegmentRemoved ==
  \A j \in HdrPositions : outp[j].name = BehindFirstSlash(src[outp[j].idx])

\* C4 witness: "a/a" has been emitted as "a".
C4_Witness ==
  \E j \in HdrPositions :
    /\ src[outp[j].idx] = <<"a", Slash, "a">>
    /\ outp[j].name = <<"a">>
    /\ ~pending

\* the pax pseudo-entry, or a bare top-level directory: one non-empty segment
\* followed by a single slash
IsTopDir(name) ==
  /\ Len(name) >= 2
  /\ name[Len(name)] = Slash
  /\ \A i \in 1..(Len(name) - 1) : name[i] # Slash
IsMeta(name) == name = PaxGlobalHeader \/ IsTopDir(name)

\* source entries, by index, that the patterns exclude after renaming
IsExcluded(i) ==
  /\ ~IsMeta(src[i])
  /\ ~IsAbs(src[i])
  /\ MatchesTable[BehindFirstSlash(src[i])][excludes].match
MetaEntries == {i \in 1..Len(src) : IsMeta(src[i])}
ExcludedEntries == {i \in 1..Len(src) : IsExcluded(i)}

\* C5: when the consumer has read a cleanly decoded archive of N entries to
\* end-of-stream, the output holds N - M - E headers (M pax or top-level
\* directory entries, E excluded ones); an excluded entry puts no block into
\* the output and is not the entry a session aborts at.
C5_EntryCount ==
  /\ readResult = "EOF" =>
       Cardinality(HdrPositions) =
         Len(src) - Cardinality(MetaEntries) - Cardinality(ExcludedEntries)
  /\ \A i \in ExcludedEntries :
       /\ BlocksOf(i) = {}
       /\ i = Len(src) => termErr \notin {"abs", "match", "hdr", "copy"}

\* C5 witness: end-of-stream read from an archive with an excluded entry and
\* an emitted one.
C5_Witness ==
  /\ readResult = "EOF"
  /\ ExcludedEntries # {}
  /\ HdrPositions # {}

\* C6: the output's entries are an order-preserving sub-sequence of the source
\* entries decoded so far: blocks appear in source order, every source entry
\* has at most one header, and each header belongs to a decoded entry.
C6_OrderPreserved ==
  /\ \A j \in 1..Len(outp) : outp[j].k # "trailer" => outp[j].idx \in 1..Len(src)
  /\ \A j, k \in 1..Len(outp) :
       (j < k /\ outp[j].k # "trailer" /\ outp[k].k # "trailer")
         => outp[j].idx <= outp[k].idx
  /\ \A j, k \in HdrPositions : j < k => outp[j].idx < outp[k].idx

\* C6 witness: two source entries have been emitted, one after the other.
C6_Witness ==
  \E j, k \in HdrPositions : outp[j].idx = 1 /\ outp[k].idx = 2 /\ ~pending

\* the index of a decoded source entry with an absolute name
AbsEntries == {i \in 1..Len(src) : IsAbs(src[i])}
IsPrefix(s, t) == Len(s) <= Len(t) /\ SubSeq(t, 1, Len(s)) = s

\* C7: an absolute name ends the session with an error at that entry: the
\* entry is the last one decoded, neither it nor a later one is written, the
\* error reaches the consumer, and what was written before stays written.
C7_AbsolutePathAborts ==
  /\ [](\A i \in AbsEntries :
          /\ i = Len(src)
          /\ BlocksOf(i) = {}
          /\ ppc # "process" => termErr = "abs"
          /\ readResult \in {"none", "abs"})
  /\ [][/\ AbsEntries # {} => src' = src
        /\ IsPrefix(outp, outp')]_vars

\* C7 witness: the second entry is absolute, the first was emitted and the
\* consumer has received the error.
C7_Witness ==
  /\ 2 \in AbsEntries
  /\ BlocksOf(1) # {}
  /\ readResult = "abs"

\* C8: under every exclusion list the pax pseudo-entry and a bare top-level
\* directory are never written, never handed to the pattern matcher, and
\* never the entry a session aborts at.
C8_MetaEntriesSkipped ==
  \A i \in MetaEntries :
    /\ BlocksOf(i) = {}
    /\ i \notin matchLog
    /\ i = Len(src) => termErr \notin {"abs", "match", "hdr", "copy"}
    /\ (i = Len(src) /\ ppc \notin {"process", "next"}) => termErr \in {"EOF", "decode"}

\* C8 witness: under a list with a negated pattern, a pax entry and a
\* top-level directory were decoded and the session ended cleanly.
C8_Witness ==
  /\ Len(excludes) = 2
  /\ Len(src) = 2
  /\ src[1] = PaxGlobalHeader
  /\ IsTopDir(src[2])
  /\ readResult = "EOF"

\* C9: before the consumer's first Read no producer runs and nothing has been
\* read from the source.
C9_LazyStart ==
  ~readIssued =>
    /\ ppc = "idle"
    /\ ~strippingStarted
    /\ ~srcRead
    /\ src = <<>>
    /\ outp = <<>>

\* C9 witness: after a Read the producer has started and read from the source.
C9_Witness == readIssued /\ srcRead /\ ppc = "next"

\* gzip.NewReader on a byte stream: it must begin with a gzip member header
Gunzip(stream) ==
  IF Len(stream) > 0 /\ stream[1].k = "gzhdr"
  THEN [ok |-> TRUE, blocks |-> Tail(stream)]
  ELSE [ok |-> FALSE, blocks |-> <<>>]

\* tar.Reader over decompressed blocks: the names of the headers up to the
\* end-of-archive trailer
TarParse(blocks) ==
  LET hdrs == SelectSeq(blocks, LAMBDA b : b.k = "hdr")
  IN  [j \in 1..Len(hdrs) |-> hdrs[j].name]

\* names of the entries the producer emitted
EmittedNames ==
  LET hdrs == SelectSeq(outp, LAMBDA b : b.k = "hdr")
  IN  [j \in 1..Len(hdrs) |-> BehindFirstSlash(src[hdrs[j].idx])]

\* C10: the output of a successful session decodes with the input pipeline,
\* gzip first and tar second, to the emitted entries.
C10_OutputIsGzipTar ==
  readResult = "EOF" =>
    /\ Gunzip(outp).ok
    /\ TarParse(Gunzip(outp).blocks) = EmittedNames

\* C11: a 404 on the .dockerignore request gives an empty exclusion list and
\* no error; every other failure of that request, one without a response
\* included, makes Get return an error (Get never crashes) before the archive
\* link is requested or the archive downloaded.
C11_IgnoreFileFailures ==
  /\ gpc # "panicked"
  /\ (ignoreOutcome = "404" /\ gpc = "link") => excludes = <<>> /\ getErr = "none"
  /\ ignoreOutcome \in {"status", "transport", "content", "parse"} =>
       /\ gpc = "returned"
       /\ getErr = "dockerignore"
       /\ requests = <<"contents">>

\* a stripped name put back under one new top-level directory
Wrap(name) == <<"a", Slash>> \o name

\* C12: for every emitted entry, wrapping its stripped name under one new
\* top-level segment and stripping again gives the same name, and the
\* re-wrapped entry is neither skipped nor rejected.
C12_RestripReproduces ==
  \A j \in HdrPositions :
    LET r == processHeader(Wrap(outp[j].name), excludes)
    IN  /\ r.err = "none"
        /\ ~r.skip
        /\ r.name = outp[j].name

\* C18: a source name without any slash is written to the output unchanged.
C18_NoSlashNameKept ==
  \A j \in HdrPositions :
    ~HasSlash(src[outp[j].idx]) => outp[j].name = src[outp[j].idx]

\* C13: with a consumer that keeps reading and a fairly scheduled producer,
\* every session over a finite source terminates: the consumer receives
\* end-of-stream or an error and the producer has returned.
C13_SessionTerminates ==
  <>(readResult # "none" /\ ppc = "done")

\* C13 witness: a source with entries was read to end-of-stream and the
\* producer has returned.
C13_Witness ==
  /\ readResult = "EOF"
  /\ ppc = "done"
  /\ Len(src) >= 1
  /\ HdrPositions # {}

\* C14: the pipe buffers nothing. A write is outstanding only for the entry
\* in hand, the producer does not move while it is outstanding, it completes
\* only by a Read taking it, and a Read returns only with a written block or
\* on the closed pipe.
C14_NoBuffer ==
  /\ [](pending =>
          /\ Len(outp) > 0
          /\ outp[Len(outp)].k # "trailer" => outp[Len(outp)].idx = Len(src))
  /\ [][/\ pending => (outp' = outp /\ src' = src)
        /\ (pending /\ ~pending') => (cpc = "reading" /\ cpc' = "idle")
        /\ (cpc = "reading" /\ cpc' = "idle") => (pending \/ pipeErr # "open")]_vars

\* C14 witness: the producer's second write waits while the consumer is
\* outside Read.
C14_Witness ==
  /\ pending
  /\ Len(outp) >= 2
  /\ cpc = "idle"

\* C15: once the consumer has read and then stays away, the producer blocked
\* on a write stays blocked: it has not finished its cleanup, the source is
\* not closed, and only a Read that takes the block lets it move.
C15_BlockedWithoutReader ==
  /\ [](pending => (ppc \notin {"closeSrc", "done"} /\ srcCloses = 0))
  /\ [][(pending /\ ~(cpc = "reading" /\ cpc' = "idle")) =>
          (pending' /\ ppc' = ppc /\ srcCloses' = srcCloses /\ pipeErr' = pipeErr)]_vars

\* C15 witness: the consumer has read, is outside Read, and the producer
\* waits on a write of its cleanup.
C15_Witness ==
  /\ readIssued
  /\ cpc = "idle"
  /\ pending
  /\ ppc = "closePipe"

\* decoded source entries whose renamed name the matcher fails on
MatchErrorEntries ==
  {i \in 1..Len(src) :
     /\ ~IsMeta(src[i])
     /\ ~IsAbs(src[i])
     /\ MatchesTable[BehindFirstSlash(src[i])][excludes].err
     /\ (i = Len(src) => ppc # "process")}

\* C17: a matcher error ends the session at that entry with the error: the
\* entry is not written, it is the last one decoded, and the consumer gets
\* the matcher error and nothing else as terminal result.
C17_MatcherErrorAborts ==
  /\ [](\A i \in MatchErrorEntries :
          /\ i = Len(src)
          /\ BlocksOf(i) = {}
          /\ termErr = "match"
          /\ ppc \in {"closeTw", "closePipe", "closeSrc", "done"}
          /\ readResult \in {"none", "match"})
  /\ [][MatchErrorEntries # {} => src' = src]_vars

\* C17 witness: after a pax entry the matcher failed on "a/a" and the consumer
\* has received the error.
C17_Witness ==
  /\ Len(src) = 2
  /\ 2 \in MatchErrorEntries
  /\ readResult = "match"

\* the blocks of source entry i in the output, and what a complete emission
\* of it consists of
Run(i) == SelectSeq(outp, LAMBDA b : b.k # "trailer" /\ b.idx = i)
Expected(i) ==
  <<HdrBlock(i, BehindFirstSlash(src[i]))>>
    \o [n \in 1..Size(src[i]) |-> DataBlock(i, n)]
    \o <<PadBlock(i)>>

\* C19: the blocks of an emitted entry are, without anything in between, its
\* header, its own payload chunks in order and the padding of the flush; a
\* later header is decoded only after all of them; a skipped entry has none.
C19_HeaderPayloadFlush ==
  \A i \in 1..Len(src) :
    LET run == Run(i)
        expected == Expected(i)
        blocks == BlocksOf(i)
    IN  /\ IsPrefix(run, expected)
        /\ \A j, k \in blocks : \A l \in j..k : l \in blocks
        /\ (run # <<>> /\ (i < Len(src) \/ readResult = "EOF")) => run = expected
        /\ (IsMeta(src[i]) \/ IsExcluded(i)) => run = <<>>

\* C19 witness: "a/a" was emitted completely, with its payload, and a second
\* entry was decoded.
C19_Witness ==
  /\ Len(src) = 2
  /\ src[1] = <<"a", Slash, "a">>
  /\ Len(Run(1)) = Size(src[1]) + 2

\* C20: once a Read has returned end-of-stream or an error, a later Read
\* changes nothing but the consumer's position: it returns the same result
\* without data, starts no producer and does not touch the source.
C20_TerminalSticky ==
  /\ [](readResult # "none" => (~pending /\ pipeErr = readResult))
  /\ [][(readResult # "none" /\ cpc' # cpc) =>
          /\ readResult' = readResult
          /\ outp' = outp
          /\ pending' = pending
          /\ ppc' = ppc
          /\ producers' = producers
          /\ srcRead' = srcRead
          /\ src' = src
          /\ srcCloses' = srcCloses
          /\ pipeCloses' = pipeCloses]_vars

\* C20 witness: a further Read is under way after one returned end-of-stream.
C20_Witness ==
  /\ readResult = "EOF"
  /\ cpc = "reading"

\* C16: however many Reads are issued, one after another or by concurrent
\* callers, the producer goroutine is started at most once.
C16_OneProducer ==
  producers <= 1

====
